---- MODULE Spec2Model ----
(***************************************************************************)
(* Model of the endoscope washer controller (src/endoloop_washer.py):      *)
(* the debounced level sensor, the five wash phases with their helpers,    *)
(* the run_all_phases orchestrator, and the start/stop requests of the     *)
(* interactive surface.                                                    *)
(*                                                                         *)
(* The worker thread is modelled statement by statement.  Every function   *)
(* of the controller that writes pins is a table of instructions (one per  *)
(* source statement); a call stack of frames interprets the tables with    *)
(* Python's try/finally, return and raise semantics.  run_all_phases       *)
(* itself is modelled by one action per statement group, its position      *)
(* kept in rpc.                                                            *)
(*                                                                         *)
(* Environment: a raw sensor read returns any boolean; the operator        *)
(* presses Start once and may request a stop at any point of the run; one  *)
(* pin access of the run may raise (a single injected hardware fault),     *)
(* leaving the pin as it was.                                              *)
(***************************************************************************)
EXTENDS Integers, Sequences, FiniteSets, TLC

\* ------------------------------------------------------------------ bounds

\* seconds per configured minute (60 in run_timer_phase), scaled down
SecondsPerMinute == 2
\* largest configured duration in minutes (Spinbox allows 5..60), scaled down
MaxDuration == 1
\* polls of wait_for_level before the timeout (90 s / 0.1 s), scaled down
TimeoutPolls == 3
\* ticks of a drain/return hold (60 s / 0.5 s), scaled down
HoldTicks == 2
\* largest stable_count the model follows
MaxStableCount == 5
\* longest run of toggling raw reads the model counts
MaxToggles == 3
\* largest timeout, in polls, of a direct call of wait_for_level
MaxWaitPolls == 6

\* --------------------------------------------------------------- constants

LOW == 0
HIGH == 1

PHASES == <<"Detergent Wash", "Rinsing", "Disinfecting", "Final Rinse", "Air-flush">>

PhaseSet == {PHASES[k] : k \in 1..Len(PHASES)}

PHASE_PINS ==
  [p \in PhaseSet |->
     CASE p = "Detergent Wash" -> 18
       [] p = "Rinsing"        -> 17
       [] p = "Disinfecting"   -> 27
       [] p = "Final Rinse"    -> 22
       [] p = "Air-flush"      -> 12]

LED_STATUS == 5
LED_ERROR == 6
BUZZER_PIN == 13

INLET_VALVE_PIN == 23
DRAIN_VALVE_PIN == 24
WATER_PUMP_PIN == 25
WATER_LEVEL_PIN == 26

DISINFECT_PUMP_PIN == 19
DISINFECT_INLET_PIN == 16
DISINFECT_DRAIN_PIN == 20
DISINFECT_LEVEL_PIN == 21

AIR_PUMP_PIN == 4

min_stable_reads == 5

\* the seven valve and pump pins, in the order shutdown_all_valves writes them
pins_to_shutdown ==
  <<INLET_VALVE_PIN, DRAIN_VALVE_PIN, WATER_PUMP_PIN,
    DISINFECT_INLET_PIN, DISINFECT_DRAIN_PIN, DISINFECT_PUMP_PIN,
    AIR_PUMP_PIN>>

ValvePins == {pins_to_shutdown[k] : k \in 1..Len(pins_to_shutdown)}

OutputPins ==
  {PHASE_PINS[p] : p \in PhaseSet} \cup {LED_STATUS, LED_ERROR, BUZZER_PIN} \cup ValvePins

SensorPins == {WATER_LEVEL_PIN, DISINFECT_LEVEL_PIN}

\* ------------------------------------------------------------ instructions
\* One instruction per source statement: op names the statement form,
\* a and b are its operands.
Out(pin, val)    == [op |-> "out", a |-> pin, b |-> val]
Call(fn, arg)    == [op |-> "call", a |-> fn, b |-> arg]
IfStopRetFalse   == [op |-> "ifstop", a |-> 0, b |-> 0]
IfNotRetFalse    == [op |-> "ifnot", a |-> 0, b |-> 0]
Dialog(kind)     == [op |-> "dialog", a |-> kind, b |-> 0]
Return(val)      == [op |-> "return", a |-> val, b |-> 0]
WaitArgs(pin, target_level, timeout) ==
  [pin |-> pin, target_level |-> target_level, timeout |-> timeout]
TimerLoop        == [op |-> "timer", a |-> 0, b |-> 0]
HoldLoop         == [op |-> "hold", a |-> 0, b |-> 0]
PollLoop         == [op |-> "poll", a |-> 0, b |-> 0]

\* A function of the controller: its statements, the index of the first
\* statement inside its try block (beyond the end when it has none), and the
\* statements of its finally block.
Func(body, try, fin) == [body |-> body, try |-> try, fin |-> fin]

run_detergent_wash_phase(duration_minutes) ==
  Func(<< Out(PHASE_PINS["Detergent Wash"], HIGH),
          Out(INLET_VALVE_PIN, HIGH),
          Out(DRAIN_VALVE_PIN, LOW),
          Out(WATER_PUMP_PIN, HIGH),
          Call("wait_for_level", WaitArgs(WATER_LEVEL_PIN, TRUE, TimeoutPolls)),
          IfStopRetFalse,
          Dialog("warning"),
          Out(INLET_VALVE_PIN, LOW),
          Out(WATER_PUMP_PIN, LOW),
          Dialog("info"),
          IfStopRetFalse,
          Call("run_timer_phase", duration_minutes),
          IfNotRetFalse,
          Call("run_drain_phase", 0),
          IfNotRetFalse,
          Return(TRUE) >>,
       2,
       << Call("shutdown_all_valves", 0),
          Out(PHASE_PINS["Detergent Wash"], LOW) >>)

run_rinsing_phase(duration_minutes) ==
  Func(<< Out(PHASE_PINS["Rinsing"], HIGH),
          Call("fill_water_phase", 0),
          IfNotRetFalse,
          IfStopRetFalse,
          Call("run_timer_phase", duration_minutes),
          IfNotRetFalse,
          Call("run_drain_phase", 0),
          IfNotRetFalse,
          Return(TRUE) >>,
       2,
       << Call("shutdown_all_valves", 0),
          Out(PHASE_PINS["Rinsing"], LOW) >>)

run_disinfecting_phase(duration_minutes) ==
  Func(<< Out(PHASE_PINS["Disinfecting"], HIGH),
          Out(DISINFECT_INLET_PIN, HIGH),
          Out(DRAIN_VALVE_PIN, LOW),
          Out(DISINFECT_DRAIN_PIN, LOW),
          Out(DISINFECT_PUMP_PIN, HIGH),
          Call("wait_for_level", WaitArgs(DISINFECT_LEVEL_PIN, TRUE, TimeoutPolls)),
          IfStopRetFalse,
          Dialog("warning"),
          Out(DISINFECT_INLET_PIN, LOW),
          Out(DISINFECT_PUMP_PIN, LOW),
          IfStopRetFalse,
          Call("run_timer_phase", duration_minutes),
          IfNotRetFalse,
          Call("return_disinfectant_phase", 0),
          IfNotRetFalse,
          Return(TRUE) >>,
       2,
       << Call("shutdown_all_valves", 0),
          Out(PHASE_PINS["Disinfecting"], LOW) >>)

run_final_rinse_phase(duration_minutes) ==
  Func(<< Out(PHASE_PINS["Final Rinse"], HIGH),
          Call("fill_water_phase", 0),
          IfNotRetFalse,
          IfStopRetFalse,
          Out(WATER_PUMP_PIN, HIGH),
          Call("run_timer_phase", duration_minutes),
          IfNotRetFalse,
          Out(WATER_PUMP_PIN, LOW),
          Call("run_drain_phase", 0),
          IfNotRetFalse,
          Return(TRUE) >>,
       2,
       << Call("shutdown_all_valves", 0),
          Out(PHASE_PINS["Final Rinse"], LOW) >>)

\* fill_water_phase returning False when its wait_for_level has timed out
fill_water_phase_timeout_fails ==
  Func(<< Out(INLET_VALVE_PIN, HIGH),
          Out(DRAIN_VALVE_PIN, LOW),
          Out(WATER_PUMP_PIN, HIGH),
          Call("wait_for_level", WaitArgs(WATER_LEVEL_PIN, TRUE, TimeoutPolls)),
          Out(INLET_VALVE_PIN, LOW),
          Out(WATER_PUMP_PIN, LOW),
          IfStopRetFalse,
          IfNotRetFalse,
          Return(TRUE) >>,
       10,
       << >>)

\* fill_water_phase without the writes of lines 710-711 that end the fill
fill_water_phase_fill_not_ended ==
  Func(<< Out(INLET_VALVE_PIN, HIGH),
          Out(DRAIN_VALVE_PIN, LOW),
          Out(WATER_PUMP_PIN, HIGH),
          Call("wait_for_level", WaitArgs(WATER_LEVEL_PIN, TRUE, TimeoutPolls)),
          IfStopRetFalse,
          Dialog("warning"),
          Return(TRUE) >>,
       8,
       << >>)

fill_water_phase ==
  Func(<< Out(INLET_VALVE_PIN, HIGH),
          Out(DRAIN_VALVE_PIN, LOW),
          Out(WATER_PUMP_PIN, HIGH),
          Call("wait_for_level", WaitArgs(WATER_LEVEL_PIN, TRUE, TimeoutPolls)),
          Out(INLET_VALVE_PIN, LOW),
          Out(WATER_PUMP_PIN, LOW),
          IfStopRetFalse,
          Dialog("warning"),
          Return(TRUE) >>,
       10,
       << >>)

\* run_drain_phase without the write of line 742 that closes the drain valve
run_drain_phase_valve_left_open ==
  Func(<< Out(DRAIN_VALVE_PIN, HIGH),
          HoldLoop,
          Return(TRUE) >>,
       4,
       << >>)

\* run_drain_phase returning False after a completed hold
run_drain_phase_returns_false ==
  Func(<< Out(DRAIN_VALVE_PIN, HIGH),
          HoldLoop,
          Out(DRAIN_VALVE_PIN, LOW),
          Return(FALSE) >>,
       5,
       << >>)

run_drain_phase ==
  Func(<< Out(DRAIN_VALVE_PIN, HIGH),
          HoldLoop,
          Out(DRAIN_VALVE_PIN, LOW),
          Return(TRUE) >>,
       5,
       << >>)

\* return_disinfectant_phase opening the main drain valve at line 749
return_disinfectant_phase_opens_main_drain ==
  Func(<< Out(DRAIN_VALVE_PIN, HIGH),
          Out(DISINFECT_DRAIN_PIN, HIGH),
          Out(DISINFECT_PUMP_PIN, HIGH),
          HoldLoop,
          Out(DISINFECT_DRAIN_PIN, LOW),
          Out(DISINFECT_PUMP_PIN, LOW),
          Return(TRUE) >>,
       8,
       << >>)

return_disinfectant_phase ==
  Func(<< Out(DRAIN_VALVE_PIN, LOW),
          Out(DISINFECT_DRAIN_PIN, HIGH),
          Out(DISINFECT_PUMP_PIN, HIGH),
          HoldLoop,
          Out(DISINFECT_DRAIN_PIN, LOW),
          Out(DISINFECT_PUMP_PIN, LOW),
          Return(TRUE) >>,
       8,
       << >>)

\* run_air_flush_phase whose finally block leaves the air pump alone
run_air_flush_phase_pump_not_released(duration_minutes) ==
  Func(<< Out(PHASE_PINS["Air-flush"], HIGH),
          Call("shutdown_all_valves", 0),
          Out(AIR_PUMP_PIN, HIGH),
          Call("run_timer_phase", duration_minutes),
          IfNotRetFalse,
          Out(AIR_PUMP_PIN, LOW),
          Return(TRUE) >>,
       2,
       << Out(PHASE_PINS["Air-flush"], LOW) >>)

run_air_flush_phase(duration_minutes) ==
  Func(<< Out(PHASE_PINS["Air-flush"], HIGH),
          Call("shutdown_all_valves", 0),
          Out(AIR_PUMP_PIN, HIGH),
          Call("run_timer_phase", duration_minutes),
          IfNotRetFalse,
          Out(AIR_PUMP_PIN, LOW),
          Return(TRUE) >>,
       2,
       << Out(AIR_PUMP_PIN, LOW),
          Out(PHASE_PINS["Air-flush"], LOW) >>)

run_timer_phase ==
  Func(<< TimerLoop, Return(TRUE) >>, 3, << >>)

\* shutdown_all_valves with the water pump left out of pins_to_shutdown
shutdown_all_valves_without_water_pump ==
  Func(<< Out(INLET_VALVE_PIN, LOW), Out(DRAIN_VALVE_PIN, LOW),
          Out(DISINFECT_INLET_PIN, LOW), Out(DISINFECT_DRAIN_PIN, LOW),
          Out(DISINFECT_PUMP_PIN, LOW), Out(AIR_PUMP_PIN, LOW) >>,
       7,
       << >>)

shutdown_all_valves ==
  Func([k \in 1..Len(pins_to_shutdown) |-> Out(pins_to_shutdown[k], LOW)],
       Len(pins_to_shutdown) + 1,
       << >>)

wait_for_level ==
  Func(<< PollLoop, Return(FALSE) >>, 3, << >>)

\* the phase function run_all_phases dispatches to for each phase name
PhaseFunction(phase) ==
  CASE phase = "Detergent Wash" -> "run_detergent_wash_phase"
    [] phase = "Rinsing"        -> "run_rinsing_phase"
    [] phase = "Disinfecting"   -> "run_disinfecting_phase"
    [] phase = "Final Rinse"    -> "run_final_rinse_phase"
    [] phase = "Air-flush"      -> "run_air_flush_phase"

\* the table of the function a frame executes
Code(fn, arg) ==
  CASE fn = "run_detergent_wash_phase"  -> run_detergent_wash_phase(arg)
    [] fn = "run_rinsing_phase"         -> run_rinsing_phase(arg)
    [] fn = "run_disinfecting_phase"    -> run_disinfecting_phase(arg)
    [] fn = "run_final_rinse_phase"     -> run_final_rinse_phase(arg)
    [] fn = "run_air_flush_phase"       -> run_air_flush_phase(arg)
    [] fn = "fill_water_phase"          -> fill_water_phase
    [] fn = "run_drain_phase"           -> run_drain_phase
    [] fn = "return_disinfectant_phase" -> return_disinfectant_phase
    [] fn = "run_timer_phase"           -> run_timer_phase
    [] fn = "shutdown_all_valves"       -> shutdown_all_valves
    [] fn = "wait_for_level"            -> wait_for_level

\* ------------------------------------------------------------------- state

VARIABLES
  gpio,             \* output pin -> LOW/HIGH, as last written by GPIO.output
  sensors,          \* sensor pin -> [last_stable_state, stable_count]
  operator_id,      \* WasherApp.operator_id
  scope_id,         \* WasherApp.scope_id
  phase_vars,       \* phase -> selected
  phase_times,      \* phase -> duration in minutes
  process_running,  \* WasherApp.process_running
  stop_requested,   \* WasherApp.stop_requested
  start_button,     \* "normal" or "disabled"
  stop_button,      \* "normal" or "disabled"
  stop_dialog,      \* stop_process is waiting in its confirmation dialog
  history_log,      \* WasherApp.history_log
  rpc,              \* position of the worker in run_all_phases
  idx,              \* index in PHASES of the loop of run_all_phases
  stack,            \* call stack of the worker below run_all_phases, top first
  phase_result,     \* run_all_phases: phase_result
  success,          \* run_all_phases: success
  log_entry,        \* run_all_phases: log_entry
  faulted,          \* a pin access has raised in this run
  stuck,            \* the valve or pump pin that access has left HIGH, 0 when none
  invoked,          \* phase functions called in this run, in call order
  sounded,          \* buzzer patterns sounded in this run, in order
  may_start,        \* the operator may press Start (once, or twice in RestartSpec)
  restart,          \* the operator will press Start a second time
  finishing,        \* a worker has re-enabled Start (458) and not yet executed line 459
  stop_in_run,      \* a stop was confirmed while this run was in progress
  late_stop,        \* a stop was confirmed when no run was in progress
  start_outcome,    \* how the latest start_process call ended: "none" before any call
  timed_out,        \* a wait_for_level of the phase in progress or just left has ended at its deadline
  exit_shutdowns,   \* shutdown_all_valves calls completed in the finally block of that phase
  wait_result,      \* what a direct call of wait_for_level returned
  streak,           \* the latest raw value read directly and how many times in a row
  stop_seen,        \* where the worker read stop_requested as True in this run
  wait_log          \* the direct call of wait_for_level: target, timeout, polls made, target read

vars ==
  << gpio, sensors, operator_id, scope_id, phase_vars, phase_times,
     process_running, stop_requested, start_button, stop_button, stop_dialog,
     history_log, rpc, idx, stack, phase_result, success, log_entry,
     faulted, stuck, invoked, sounded, may_start, restart, finishing,
     stop_in_run, late_stop,
     start_outcome, timed_out,
     exit_shutdowns, wait_result, streak, stop_seen, wait_log >>

sensor_log == << streak, wait_log >>
harness_vars == << streak, wait_log, stop_seen >>
config_vars == << operator_id, scope_id, phase_vars, phase_times >>
button_vars == << start_button, stop_button >>
run_vars == << idx, phase_result, success, log_entry >>
start_vars == << may_start, start_outcome, restart, finishing, stop_in_run, late_stop >>
phase_obs == << timed_out, exit_shutdowns >>

\* ------------------------------------------------------------------ sensor

WaterLevelSensor == [last_stable_state |-> FALSE, stable_count |-> 0]

\* read_stable_level without debouncing: every raw value is committed at once
read_stable_level_undebounced(s, current_state) ==
  [last_stable_state |-> current_state,
   stable_count |-> IF current_state = s.last_stable_state
                    THEN s.stable_count + 1
                    ELSE 0]

\* read_stable_level committing whatever stable_count is (a threshold of 0)
read_stable_level_no_minimum(s, current_state) ==
  LET count == IF current_state = s.last_stable_state
               THEN s.stable_count + 1
               ELSE 0
  IN [last_stable_state |-> IF count >= 0
                            THEN current_state
                            ELSE s.last_stable_state,
      stable_count |-> count]

\* read_stable_level that leaves stable_count alone on a differing read
read_stable_level_count_not_reset(s, current_state) ==
  LET count == IF current_state = s.last_stable_state
               THEN s.stable_count + 1
               ELSE s.stable_count
  IN [last_stable_state |-> IF count >= min_stable_reads
                            THEN current_state
                            ELSE s.last_stable_state,
      stable_count |-> count]

\* read_stable_level counting the reads that differ from last_stable_state
\* and committing a new level after min_stable_reads of them
read_stable_level_counts_changes(s, current_state) ==
  LET count == IF current_state # s.last_stable_state
               THEN s.stable_count + 1
               ELSE 0
  IN [last_stable_state |-> IF count >= min_stable_reads
                            THEN current_state
                            ELSE s.last_stable_state,
      stable_count |-> IF count >= min_stable_reads THEN 0 ELSE count]

\* WaterLevelSensor.read_stable_level: the sensor after one read of the raw
\* value current_state; the method returns the new last_stable_state
read_stable_level(s, current_state) ==
  LET count == IF current_state = s.last_stable_state
               THEN s.stable_count + 1
               ELSE 0
  IN [last_stable_state |-> IF count >= min_stable_reads
                            THEN current_state
                            ELSE s.last_stable_state,
      stable_count |-> count]

\* The code compares stable_count only with min_stable_reads, so counts at
\* or above MaxStableCount (itself at least min_stable_reads) behave alike:
\* the model keeps them as MaxStableCount.
Capped(s) ==
  [s EXCEPT !.stable_count = IF @ > MaxStableCount THEN MaxStableCount ELSE @]

\* ------------------------------------------------------------- call stack

Frame(fn, arg) ==
  [fn |-> fn, arg |-> arg, i |-> 1, sec |-> "body", pend |-> "none",
   n |-> IF fn = "run_timer_phase" THEN arg * SecondsPerMinute ELSE 0,
   loc |-> "none"]

Section(f) ==
  IF f.sec = "body" THEN Code(f.fn, f.arg).body ELSE Code(f.fn, f.arg).fin

Instr(f) == Section(f)[f.i]

\* the statement a frame is at lies inside a try block with a finally
InTry(f) ==
  /\ f.sec = "body"
  /\ f.i >= Code(f.fn, f.arg).try
  /\ Len(Code(f.fn, f.arg).fin) > 0

Result(st, out) == [st |-> st, out |-> out]

RECURSIVE Raise(_)
\* an exception raised by the statement the top frame is at: enter the
\* nearest enclosing finally block, or leave the stack to run_all_phases
Raise(st) ==
  IF st = << >> THEN Result(<< >>, "exc")
  ELSE IF InTry(Head(st))
       THEN Result(<< [Head(st) EXCEPT !.sec = "fin", !.i = 1, !.pend = "exc"] >>
                     \o Tail(st), "none")
       ELSE Raise(Tail(st))

RECURSIVE Advance(_)
RECURSIVE Leave(_, _)
\* the top frame's function completes with value v ("T", "F" or "N"): first
\* through its finally block when the return is inside the try; then the
\* caller stores the value and goes on
Leave(st, v) ==
  IF InTry(Head(st))
  THEN Result(<< [Head(st) EXCEPT !.sec = "fin", !.i = 1, !.pend = v] >>
                \o Tail(st), "none")
  ELSE IF Tail(st) = << >> THEN Result(<< >>, v)
       ELSE Advance(<< [Head(Tail(st)) EXCEPT !.loc = v] >> \o Tail(Tail(st)))

\* the top frame goes on to its next statement; at the end of a body the
\* function returns None, at the end of a finally block the pending return
\* or exception is completed
Advance(st) ==
  LET f == Head(st) IN
  IF f.i < Len(Section(f))
  THEN Result(<< [f EXCEPT !.i = f.i + 1] >> \o Tail(st), "none")
  ELSE IF f.sec = "body" THEN Leave(st, "N")
       ELSE IF f.pend = "exc" THEN Raise(Tail(st))
            ELSE Leave(<< [f EXCEPT !.sec = "done"] >> \o Tail(st), f.pend)

\* ------------------------------------------------------------------- Init

Durations == 1..MaxDuration

NewLogEntry ==
  [phases |-> << >>, status |-> "SUCCESS", error |-> FALSE, timestamp_end |-> FALSE]

Init ==
  /\ gpio = [p \in OutputPins |-> LOW]
  /\ sensors = [p \in SensorPins |-> WaterLevelSensor]
  /\ operator_id \in {"", "OP-1"}
  /\ scope_id \in {"", "SC-1"}
  /\ phase_vars \in [PhaseSet -> BOOLEAN]
  /\ \E d \in Durations : phase_times = [p \in PhaseSet |-> d]
  /\ process_running = FALSE
  /\ stop_requested = FALSE
  /\ start_button = "normal"
  /\ stop_button = "disabled"
  /\ stop_dialog = FALSE
  /\ history_log = << >>
  /\ rpc = "idle"
  /\ idx = 1
  /\ stack = << >>
  /\ phase_result = TRUE
  /\ success = TRUE
  /\ log_entry = NewLogEntry
  /\ faulted = FALSE
  /\ stuck = 0
  /\ invoked = << >>
  /\ sounded = << >>
  /\ may_start = TRUE
  /\ restart = FALSE
  /\ finishing = FALSE
  /\ stop_in_run = FALSE
  /\ late_stop = FALSE
  /\ start_outcome = "none"
  /\ timed_out = FALSE
  /\ exit_shutdowns = 0
  /\ wait_result = "none"
  /\ streak = [value |-> FALSE, len |-> 0, toggles |-> 0]
  /\ stop_seen = "none"
  /\ wait_log = [target_level |-> TRUE, timeout |-> 0, polls |-> 0, seen |-> FALSE]

\* ------------------------------------------------- the interactive surface

\* WasherApp.test_sensors: the sensors after one debounced read of each
\* (the operator's answer to its dialog is an input of start_process)
test_sensors(water, disinfect) ==
  [sensors EXCEPT ![WATER_LEVEL_PIN] = Capped(read_stable_level(@, water)),
                  ![DISINFECT_LEVEL_PIN] = Capped(read_stable_level(@, disinfect))]

\* start_process without the check of lines 335-337 that a phase is selected
start_process_without_phase_check ==
  /\ start_button = "normal"
  /\ ~stop_dialog
  /\ may_start
  /\ IF operator_id = "" \/ scope_id = ""
     THEN /\ start_outcome' = "rejected"
          /\ UNCHANGED << gpio, sensors, config_vars, process_running,
                          stop_requested, button_vars, stop_dialog, history_log,
                          rpc, stack, run_vars, faulted, stuck, invoked, sounded,
                          may_start, restart, finishing, stop_in_run, late_stop,
                          phase_obs, wait_result,
                          harness_vars >>
     ELSE \E water \in BOOLEAN, disinfect \in BOOLEAN, answer \in BOOLEAN :
            /\ sensors' = test_sensors(water, disinfect)
            /\ IF answer
               THEN /\ process_running' = TRUE
                    /\ stop_requested' = FALSE
                    /\ start_button' = "disabled"
                    /\ stop_button' = "normal"
                    /\ rpc' = "status_on"
                    /\ faulted' = FALSE
                    /\ stuck' = 0
                    /\ invoked' = << >>
                    /\ sounded' = << >>
                    /\ stop_seen' = "none"
                    /\ start_outcome' = "started"
                    /\ stop_in_run' = FALSE
               ELSE /\ start_outcome' = "declined"
                    /\ UNCHANGED << process_running, stop_requested, button_vars,
                                    rpc, faulted, stuck, invoked, sounded, stop_seen,
                                    stop_in_run >>
            /\ may_start' = restart
            /\ restart' = FALSE
            /\ UNCHANGED << finishing, late_stop >>
            /\ UNCHANGED << gpio, config_vars, stop_dialog, history_log, stack,
                            run_vars, phase_obs, wait_result, sensor_log >>

\* start_process without line 344, which clears stop_requested
start_process_keeps_stop_flag ==
  /\ start_button = "normal"
  /\ ~stop_dialog
  /\ may_start
  /\ IF operator_id = "" \/ scope_id = "" \/ ~(\E p \in PhaseSet : phase_vars[p])
     THEN /\ start_outcome' = "rejected"
          /\ UNCHANGED << gpio, sensors, config_vars, process_running,
                          stop_requested, button_vars, stop_dialog, history_log,
                          rpc, stack, run_vars, faulted, stuck, invoked, sounded,
                          may_start, restart, finishing, stop_in_run, late_stop,
                          phase_obs, wait_result,
                          harness_vars >>
     ELSE \E water \in BOOLEAN, disinfect \in BOOLEAN, answer \in BOOLEAN :
            /\ sensors' = test_sensors(water, disinfect)
            /\ IF answer
               THEN /\ process_running' = TRUE
                    /\ UNCHANGED stop_requested
                    /\ start_button' = "disabled"
                    /\ stop_button' = "normal"
                    /\ rpc' = "status_on"
                    /\ faulted' = FALSE
                    /\ stuck' = 0
                    /\ invoked' = << >>
                    /\ sounded' = << >>
                    /\ stop_seen' = "none"
                    /\ start_outcome' = "started"
                    /\ stop_in_run' = FALSE
               ELSE /\ start_outcome' = "declined"
                    /\ UNCHANGED << process_running, stop_requested, button_vars,
                                    rpc, faulted, stuck, invoked, sounded, stop_seen,
                                    stop_in_run >>
            /\ may_start' = restart
            /\ restart' = FALSE
            /\ UNCHANGED << finishing, late_stop >>
            /\ UNCHANGED << gpio, config_vars, stop_dialog, history_log, stack,
                            run_vars, phase_obs, wait_result, sensor_log >>

\* WasherApp.start_process (the Start button's command)
start_process ==
  /\ start_button = "normal"
  /\ ~stop_dialog
  /\ may_start
  /\ IF operator_id = "" \/ scope_id = "" \/ ~(\E p \in PhaseSet : phase_vars[p])
     THEN /\ start_outcome' = "rejected"
          /\ UNCHANGED << gpio, sensors, config_vars, process_running,
                          stop_requested, button_vars, stop_dialog, history_log,
                          rpc, stack, run_vars, faulted, stuck, invoked, sounded,
                          may_start, restart, finishing, stop_in_run, late_stop,
                          phase_obs, wait_result,
                          harness_vars >>
     ELSE \E water \in BOOLEAN, disinfect \in BOOLEAN, answer \in BOOLEAN :
            /\ sensors' = test_sensors(water, disinfect)
            /\ IF answer
               THEN /\ process_running' = TRUE
                    /\ stop_requested' = FALSE
                    /\ start_button' = "disabled"
                    /\ stop_button' = "normal"
                    /\ rpc' = "status_on"
                    /\ faulted' = FALSE
                    /\ stuck' = 0
                    /\ invoked' = << >>
                    /\ sounded' = << >>
                    /\ stop_seen' = "none"
                    /\ start_outcome' = "started"
                    /\ stop_in_run' = FALSE
               ELSE /\ start_outcome' = "declined"
                    /\ UNCHANGED << process_running, stop_requested, button_vars,
                                    rpc, faulted, stuck, invoked, sounded, stop_seen,
                                    stop_in_run >>
            /\ may_start' = restart
            /\ restart' = FALSE
            /\ UNCHANGED << finishing, late_stop >>
            /\ UNCHANGED << gpio, config_vars, stop_dialog, history_log, stack,
                            run_vars, phase_obs, wait_result, sensor_log >>

\* WasherApp.stop_process (the Stop button's command), up to its dialog.
\* The operator does not press Stop again while a stop is pending.
stop_process ==
  /\ stop_button = "normal"
  /\ ~stop_dialog
  /\ ~stop_requested
  /\ IF ~process_running
     THEN UNCHANGED vars
     ELSE /\ stop_dialog' = TRUE
          /\ UNCHANGED << gpio, sensors, config_vars, process_running,
                          stop_requested, button_vars, history_log, rpc, stack,
                          run_vars, faulted, stuck, invoked, sounded, start_vars,
                          phase_obs, wait_result, harness_vars >>

\* WasherApp.stop_process: the operator answers the confirmation dialog
stop_confirm ==
  /\ stop_dialog
  /\ stop_dialog' = FALSE
  /\ \E confirm \in BOOLEAN :
       /\ stop_requested' = IF confirm THEN TRUE ELSE stop_requested
       /\ stop_in_run' = (stop_in_run \/ (confirm /\ process_running))
       /\ late_stop' = (late_stop \/ (confirm /\ ~process_running))
  /\ UNCHANGED << gpio, sensors, config_vars, process_running, button_vars,
                  history_log, rpc, stack, run_vars, faulted, stuck, invoked, sounded,
                  may_start, start_outcome, restart, finishing, phase_obs,
                  wait_result, harness_vars >>

\* ------------------------------------------------- the worker: statements

Top == Head(stack)

At(op) == stack # << >> /\ Instr(Top).op = op

\* the stack after a statement; when the outermost frame has completed, its
\* outcome goes to its caller: in run_all_phases to the statement after the
\* phase call (406), to the except clause (418), or on in the finally block
\* (429); or to a direct caller of wait_for_level
Continue(r) ==
  /\ stack' = r.st
  /\ IF r.out = "none"
     THEN UNCHANGED << rpc, phase_result, wait_result >>
     ELSE IF rpc = "in_phase"
          THEN /\ IF r.out = "exc"
                  THEN rpc' = "except" /\ UNCHANGED phase_result
                  ELSE rpc' = "phase_ret" /\ phase_result' = (r.out = "T")
               /\ UNCHANGED wait_result
          ELSE IF rpc = "fin_shutdown"
          THEN /\ rpc' = IF r.out = "exc" THEN "dead" ELSE "fin_log"
               /\ UNCHANGED << phase_result, wait_result >>
          ELSE /\ wait_result' = r.out
               /\ UNCHANGED << rpc, phase_result >>

worker_unchanged ==
  << config_vars, process_running, stop_requested, button_vars, stop_dialog,
     history_log, idx, success, log_entry, invoked, sounded, start_vars >>

\* one iteration of the loop of wait_for_level, the sensor having read the
\* raw value current_state: return True at the target level, else go on
Poll(st, current_state) ==
  LET f == Head(st)
      s == read_stable_level(sensors[f.arg.pin], current_state)
  IN IF s.last_stable_state = f.arg.target_level
     THEN Leave(st, "T")
     ELSE Result(<< [f EXCEPT !.n = f.n + 1] >> \o Tail(st), "none")

\* GPIO.output(pin, value)
GPIO_output ==
  /\ At("out")
  /\ gpio' = [gpio EXCEPT ![Instr(Top).a] = Instr(Top).b]
  /\ Continue(Advance(stack))
  /\ exit_shutdowns' =
       IF /\ Top.fn = "shutdown_all_valves"
          /\ Top.i = Len(Section(Top))
          /\ Len(stack) > 1
          /\ stack[2].sec = "fin"
       THEN exit_shutdowns + 1
       ELSE exit_shutdowns
  /\ UNCHANGED << sensors, faulted, stuck, harness_vars, timed_out, worker_unchanged >>

\* GPIO.output(pin, value) raises: the pin stays as it was
GPIO_output_raises ==
  /\ At("out")
  /\ ~faulted
  /\ faulted' = TRUE
  /\ stuck' = IF Instr(Top).a \in ValvePins /\ gpio[Instr(Top).a] = HIGH
            THEN Instr(Top).a ELSE 0
  /\ Continue(Raise(stack))
  /\ UNCHANGED << gpio, sensors, harness_vars, phase_obs, worker_unchanged >>

\* a call of a helper or of a sensor's wait_for_level
call_function ==
  /\ At("call")
  /\ stack' = << Frame(Instr(Top).a, Instr(Top).b) >> \o stack
  /\ UNCHANGED << gpio, sensors, faulted, stuck, rpc, phase_result, wait_result,
                  harness_vars, phase_obs, worker_unchanged >>

\* if self.stop_requested: return False
if_stop_requested ==
  /\ At("ifstop")
  /\ Continue(IF stop_requested THEN Leave(stack, "F") ELSE Advance(stack))
  /\ UNCHANGED << gpio, sensors, faulted, stuck, sensor_log, phase_obs, worker_unchanged >>
  /\ stop_seen' = IF stop_requested THEN "step" ELSE stop_seen

\* if not <result of the call before>: return False
if_not_result ==
  /\ At("ifnot")
  /\ Continue(IF Top.loc # "T" THEN Leave(stack, "F") ELSE Advance(stack))
  /\ UNCHANGED << gpio, sensors, faulted, stuck, harness_vars, phase_obs, worker_unchanged >>

\* messagebox.showinfo, and messagebox.showwarning after a fill that was not
\* reached: the operator acknowledges the dialog
dialog_acknowledged ==
  /\ At("dialog")
  /\ Continue(Advance(stack))
  /\ UNCHANGED << gpio, sensors, faulted, stuck, harness_vars, phase_obs, worker_unchanged >>

\* return True / return False
return_value ==
  /\ At("return")
  /\ Continue(Leave(stack, IF Instr(Top).a THEN "T" ELSE "F"))
  /\ UNCHANGED << gpio, sensors, faulted, stuck, harness_vars, phase_obs, worker_unchanged >>

\* run_timer_phase: one iteration of the countdown loop (check the flag,
\* show the time, sleep one second), or the end of the loop
timer_tick ==
  /\ At("timer")
  /\ Continue(IF Top.n = 0 THEN Advance(stack)
              ELSE IF stop_requested THEN Leave(stack, "F")
              ELSE Result(<< [Top EXCEPT !.n = Top.n - 1] >> \o Tail(stack), "none"))
  /\ UNCHANGED << gpio, sensors, faulted, stuck, sensor_log, phase_obs, worker_unchanged >>
  /\ stop_seen' = IF Top.n > 0 /\ stop_requested THEN "timer" ELSE stop_seen

\* run_drain_phase / return_disinfectant_phase: one iteration of the hold
\* loop (check the flag, show the time, sleep half a second), or its end
hold_tick ==
  /\ At("hold")
  /\ Continue(IF Top.n >= HoldTicks THEN Advance(stack)
              ELSE IF stop_requested THEN Leave(stack, "F")
              ELSE Result(<< [Top EXCEPT !.n = Top.n + 1] >> \o Tail(stack), "none"))
  /\ UNCHANGED << gpio, sensors, faulted, stuck, sensor_log, phase_obs, worker_unchanged >>
  /\ stop_seen' = IF Top.n < HoldTicks /\ stop_requested THEN "hold" ELSE stop_seen

\* poll without the deadline of line 197 in the loop condition
poll_without_deadline(current_state) ==
  /\ At("poll")
  /\ sensors' = [sensors EXCEPT ![Top.arg.pin] =
                   Capped(read_stable_level(@, current_state))]
  /\ Continue(Poll(stack, current_state))
  /\ UNCHANGED << gpio, faulted, stuck, phase_obs, worker_unchanged >>

\* wait_for_level: one iteration of the polling loop (read the debounced
\* level, return True at the target level, else sleep check_interval)
poll(current_state) ==
  /\ At("poll")
  /\ Top.n < Top.arg.timeout
  /\ sensors' = [sensors EXCEPT ![Top.arg.pin] =
                   Capped(read_stable_level(@, current_state))]
  /\ Continue(Poll(stack, current_state))
  /\ UNCHANGED << gpio, faulted, stuck, phase_obs, worker_unchanged >>

wait_poll ==
  /\ \E current_state \in BOOLEAN : poll(current_state)
  /\ UNCHANGED harness_vars

\* wait_for_level: GPIO.input raises inside read_stable_level
wait_poll_raises ==
  /\ At("poll")
  /\ Top.n < Top.arg.timeout
  /\ ~faulted
  /\ faulted' = TRUE
  /\ UNCHANGED stuck
  /\ Continue(Raise(stack))
  /\ UNCHANGED << gpio, sensors, harness_vars, phase_obs, worker_unchanged >>

\* wait_for_level: the deadline has passed, the loop ends
wait_timeout ==
  /\ At("poll")
  /\ Top.n >= Top.arg.timeout
  /\ Continue(Advance(stack))
  /\ timed_out' = TRUE
  /\ UNCHANGED << gpio, sensors, faulted, stuck, harness_vars, exit_shutdowns,
                  worker_unchanged >>

\* --------------------------------------------- the worker: run_all_phases

gui_unchanged ==
  << config_vars, process_running, stop_requested, button_vars, stop_dialog, start_vars,
     wait_result, harness_vars >>

\* entering the finally block of run_all_phases: self.shutdown_all_valves()
Finally == << Frame("shutdown_all_valves", 0) >>

\* lines 373-383: status LED on, a fresh log_entry
run_begin ==
  /\ rpc = "status_on"
  /\ gpio' = [gpio EXCEPT ![LED_STATUS] = HIGH]
  /\ success' = TRUE
  /\ log_entry' = NewLogEntry
  /\ idx' = 1
  /\ rpc' = "loop"
  /\ UNCHANGED << sensors, history_log, stack, phase_result, faulted, stuck, invoked,
                  sounded, phase_obs, gui_unchanged >>

\* line 374 raises outside the try block: the worker thread ends
run_begin_raises ==
  /\ rpc = "status_on"
  /\ ~faulted
  /\ faulted' = TRUE
  /\ UNCHANGED stuck
  /\ rpc' = "dead"
  /\ UNCHANGED << gpio, sensors, history_log, stack, run_vars, invoked, sounded,
                  phase_obs, gui_unchanged >>

\* run_loop marking a stop seen between phases as ERROR
run_loop_stop_marked_error ==
  /\ rpc = "loop"
  /\ IF idx > Len(PHASES)
     THEN /\ rpc' = "fin_shutdown"
          /\ stack' = Finally
          /\ UNCHANGED << idx, log_entry, invoked, phase_obs >>
     ELSE IF stop_requested
     THEN /\ log_entry' = [log_entry EXCEPT !.status = "ERROR"]
          /\ rpc' = "fin_shutdown"
          /\ stack' = Finally
          /\ UNCHANGED << idx, invoked, phase_obs >>
     ELSE IF phase_vars[PHASES[idx]]
     THEN /\ stack' = << Frame(PhaseFunction(PHASES[idx]), phase_times[PHASES[idx]]) >>
          /\ invoked' = Append(invoked, PhaseFunction(PHASES[idx]))
          /\ timed_out' = FALSE
          /\ exit_shutdowns' = 0
          /\ rpc' = "in_phase"
          /\ UNCHANGED << idx, log_entry >>
     ELSE /\ idx' = idx + 1
          /\ UNCHANGED << rpc, stack, log_entry, invoked, phase_obs >>
  /\ UNCHANGED << gpio, sensors, history_log, phase_result, success, faulted, stuck,
                  sounded, config_vars, process_running, stop_requested, button_vars,
                  stop_dialog, start_vars, wait_result, sensor_log >>
  /\ stop_seen' = IF idx <= Len(PHASES) /\ stop_requested THEN "loop" ELSE stop_seen

\* run_loop calling the phase function without looking at phase_vars
run_loop_ignores_selection ==
  /\ rpc = "loop"
  /\ IF idx > Len(PHASES)
     THEN /\ rpc' = "fin_shutdown"
          /\ stack' = Finally
          /\ UNCHANGED << idx, log_entry, invoked, phase_obs >>
     ELSE IF stop_requested
     THEN /\ log_entry' = [log_entry EXCEPT !.status = "STOPPED_BY_USER"]
          /\ rpc' = "fin_shutdown"
          /\ stack' = Finally
          /\ UNCHANGED << idx, invoked, phase_obs >>
     ELSE /\ stack' = << Frame(PhaseFunction(PHASES[idx]), phase_times[PHASES[idx]]) >>
          /\ invoked' = Append(invoked, PhaseFunction(PHASES[idx]))
          /\ timed_out' = FALSE
          /\ exit_shutdowns' = 0
          /\ rpc' = "in_phase"
          /\ UNCHANGED << idx, log_entry >>
  /\ UNCHANGED << gpio, sensors, history_log, phase_result, success, faulted, stuck,
                  sounded, config_vars, process_running, stop_requested, button_vars,
                  stop_dialog, start_vars, wait_result, sensor_log >>
  /\ stop_seen' = IF idx <= Len(PHASES) /\ stop_requested THEN "loop" ELSE stop_seen

\* lines 386-404: one iteration of "for phase in PHASES" up to the call of
\* the phase function, or the end of the loop
run_loop ==
  /\ rpc = "loop"
  /\ IF idx > Len(PHASES)
     THEN /\ rpc' = "fin_shutdown"
          /\ stack' = Finally
          /\ UNCHANGED << idx, log_entry, invoked, phase_obs >>
     ELSE IF stop_requested
     THEN /\ log_entry' = [log_entry EXCEPT !.status = "STOPPED_BY_USER"]
          /\ rpc' = "fin_shutdown"
          /\ stack' = Finally
          /\ UNCHANGED << idx, invoked, phase_obs >>
     ELSE IF phase_vars[PHASES[idx]]
     THEN /\ stack' = << Frame(PhaseFunction(PHASES[idx]), phase_times[PHASES[idx]]) >>
          /\ invoked' = Append(invoked, PhaseFunction(PHASES[idx]))
          /\ timed_out' = FALSE
          /\ exit_shutdowns' = 0
          /\ rpc' = "in_phase"
          /\ UNCHANGED << idx, log_entry >>
     ELSE /\ idx' = idx + 1
          /\ UNCHANGED << rpc, stack, log_entry, invoked, phase_obs >>
  /\ UNCHANGED << gpio, sensors, history_log, phase_result, success, faulted, stuck,
                  sounded, config_vars, process_running, stop_requested, button_vars,
                  stop_dialog, start_vars, wait_result, sensor_log >>
  /\ stop_seen' = IF idx <= Len(PHASES) /\ stop_requested THEN "loop" ELSE stop_seen

\* lines 406-416: the phase function has returned
run_phase_returned ==
  /\ rpc = "phase_ret"
  /\ LET phase_log == [name |-> PHASES[idx],
                       duration |-> phase_times[PHASES[idx]],
                       status |-> IF phase_result THEN "SUCCESS" ELSE "ERROR"]
         appended == [log_entry EXCEPT !.phases = Append(@, phase_log)]
     IN IF ~phase_result
        THEN /\ success' = FALSE
             /\ log_entry' = [appended EXCEPT !.status = "ERROR"]
             /\ rpc' = "fin_shutdown"
             /\ stack' = Finally
             /\ UNCHANGED idx
        ELSE /\ log_entry' = appended
             /\ idx' = idx + 1
             /\ rpc' = "loop"
             /\ UNCHANGED << success, stack >>
  /\ UNCHANGED << gpio, sensors, history_log, phase_result, faulted, stuck, invoked,
                  sounded, gui_unchanged >>
  /\ timed_out' = FALSE
  /\ exit_shutdowns' = 0

\* run_except leaving the record's status and error as they are
run_except_keeps_status ==
  /\ rpc = "except"
  /\ success' = FALSE
  /\ rpc' = "fin_shutdown"
  /\ stack' = Finally
  /\ UNCHANGED << gpio, sensors, history_log, idx, phase_result, log_entry, faulted,
                  stuck, invoked, sounded, gui_unchanged >>
  /\ timed_out' = FALSE
  /\ exit_shutdowns' = 0

\* lines 418-422: except Exception
run_except ==
  /\ rpc = "except"
  /\ success' = FALSE
  /\ log_entry' = [log_entry EXCEPT !.status = "SYSTEM_ERROR", !.error = TRUE]
  /\ rpc' = "fin_shutdown"
  /\ stack' = Finally
  /\ UNCHANGED << gpio, sensors, history_log, idx, phase_result, faulted, stuck, invoked,
                  sounded, gui_unchanged >>
  /\ timed_out' = FALSE
  /\ exit_shutdowns' = 0

\* run_save_log clearing stop_requested when it saves the record
run_save_log_clears_stop ==
  /\ rpc = "fin_log"
  /\ log_entry' = [log_entry EXCEPT !.timestamp_end = TRUE]
  /\ history_log' = Append(history_log, log_entry')
  /\ rpc' = "fin_status_off"
  /\ stop_requested' = FALSE
  /\ UNCHANGED << gpio, sensors, stack, idx, phase_result, success, faulted, stuck,
                  invoked, sounded, phase_obs, config_vars, process_running,
                  button_vars, stop_dialog, start_vars, wait_result, harness_vars >>

\* lines 429-434: close the record and hand it to the history
run_save_log ==
  /\ rpc = "fin_log"
  /\ log_entry' = [log_entry EXCEPT !.timestamp_end = TRUE]
  /\ history_log' = Append(history_log, log_entry')
  /\ rpc' = "fin_status_off"
  /\ UNCHANGED << gpio, sensors, stack, idx, phase_result, success, faulted, stuck,
                  invoked, sounded, phase_obs, gui_unchanged >>

\* lines 436-443: final display, status LED off
run_status_off ==
  /\ rpc = "fin_status_off"
  /\ gpio' = [gpio EXCEPT ![LED_STATUS] = LOW]
  /\ rpc' = "fin_error"
  /\ UNCHANGED << sensors, history_log, stack, run_vars, faulted, stuck, invoked,
                  sounded, phase_obs, gui_unchanged >>

\* line 443 raises inside the finally block: the worker thread ends
run_status_off_raises ==
  /\ rpc = "fin_status_off"
  /\ ~faulted
  /\ faulted' = TRUE
  /\ UNCHANGED stuck
  /\ rpc' = "dead"
  /\ UNCHANGED << gpio, sensors, history_log, stack, run_vars, invoked, sounded,
                  phase_obs, gui_unchanged >>

\* run_error_signal without the "and not self.stop_requested" of line 445
run_error_signal_ignores_stop ==
  /\ rpc = "fin_error"
  /\ IF ~success
     THEN /\ gpio' = [gpio EXCEPT ![LED_ERROR] = HIGH]
          /\ sounded' = Append(sounded, "error")
     ELSE UNCHANGED << gpio, sounded >>
  /\ rpc' = "fin_report"
  /\ UNCHANGED << sensors, history_log, stack, run_vars, faulted, stuck, invoked,
                  phase_obs, gui_unchanged >>

\* lines 445-447 with sound_error_buzzer (461-472): error LED and error
\* pattern.  The branch is entered only after an exception, so the one
\* fault of the run has been spent and line 446 does not raise.
run_error_signal ==
  /\ rpc = "fin_error"
  /\ IF ~success /\ ~stop_requested
     THEN /\ gpio' = [gpio EXCEPT ![LED_ERROR] = HIGH]
          /\ sounded' = Append(sounded, "error")
     ELSE UNCHANGED << gpio, sounded >>
  /\ rpc' = "fin_report"
  /\ UNCHANGED << sensors, history_log, stack, run_vars, faulted, stuck, invoked,
                  phase_obs, gui_unchanged >>

\* run_completion_signal without the call of sound_completion_buzzer
run_completion_signal_silent ==
  /\ rpc = "fin_report"
  /\ rpc' = "fin_reset"
  /\ UNCHANGED << gpio, sensors, history_log, stack, run_vars, faulted, stuck, invoked,
                  sounded, phase_obs, gui_unchanged >>

\* lines 450-453 with sound_completion_buzzer (474-484): completion pattern
\* and the report prompt
run_completion_signal ==
  /\ rpc = "fin_report"
  /\ IF success /\ ~stop_requested
     THEN sounded' = Append(sounded, "completion")
     ELSE UNCHANGED sounded
  /\ rpc' = "fin_reset"
  /\ UNCHANGED << gpio, sensors, history_log, stack, run_vars, faulted, stuck, invoked,
                  phase_obs, gui_unchanged >>

\* lines 456-458: the flags are reset and the Start button is enabled again.
\* From here on start_process can be called, so the worker's last statement
\* (line 459) is a step of its own; rpc is left to the next worker.
run_reset ==
  /\ rpc = "fin_reset"
  /\ process_running' = FALSE
  /\ stop_requested' = FALSE
  /\ start_button' = "normal"
  /\ finishing' = TRUE
  /\ rpc' = "idle"
  /\ UNCHANGED << gpio, sensors, config_vars, stop_button, stop_dialog, history_log,
                  stack, run_vars, faulted, stuck, invoked, sounded, may_start,
                  restart, start_outcome, stop_in_run, late_stop, phase_obs,
                  wait_result, harness_vars >>

\* line 459: the worker disables the Stop button and run_all_phases returns
run_stop_button_off ==
  /\ finishing
  /\ stop_button' = "disabled"
  /\ finishing' = FALSE
  /\ UNCHANGED << gpio, sensors, config_vars, process_running, stop_requested,
                  start_button, stop_dialog, history_log, rpc, stack, run_vars,
                  faulted, stuck, invoked, sounded, may_start, restart,
                  start_outcome, stop_in_run, late_stop, phase_obs, wait_result,
                  harness_vars >>

\* ------------------------------------------------------------------- Spec

Next ==
  \/ start_process
  \/ stop_process
  \/ stop_confirm
  \/ GPIO_output
  \/ GPIO_output_raises
  \/ call_function
  \/ if_stop_requested
  \/ if_not_result
  \/ dialog_acknowledged
  \/ return_value
  \/ timer_tick
  \/ hold_tick
  \/ wait_poll
  \/ wait_poll_raises
  \/ wait_timeout
  \/ run_begin
  \/ run_begin_raises
  \/ run_loop
  \/ run_phase_returned
  \/ run_except
  \/ run_save_log
  \/ run_status_off
  \/ run_status_off_raises
  \/ run_error_signal
  \/ run_completion_signal
  \/ run_reset
  \/ run_stop_button_off

Spec == Init /\ [][Next]_vars

\* The operator presses Start twice, with Detergent Wash selected.
RestartInit ==
  /\ gpio = [p \in OutputPins |-> LOW]
  /\ sensors = [p \in SensorPins |-> WaterLevelSensor]
  /\ operator_id = "OP-1"
  /\ scope_id = "SC-1"
  /\ phase_vars = [p \in PhaseSet |-> p = "Detergent Wash"]
  /\ phase_times = [p \in PhaseSet |-> 1]
  /\ process_running = FALSE
  /\ stop_requested = FALSE
  /\ start_button = "normal"
  /\ stop_button = "disabled"
  /\ stop_dialog = FALSE
  /\ history_log = << >>
  /\ rpc = "idle"
  /\ idx = 1
  /\ stack = << >>
  /\ phase_result = TRUE
  /\ success = TRUE
  /\ log_entry = NewLogEntry
  /\ faulted = FALSE
  /\ stuck = 0
  /\ invoked = << >>
  /\ sounded = << >>
  /\ may_start = TRUE
  /\ restart = TRUE
  /\ finishing = FALSE
  /\ stop_in_run = FALSE
  /\ late_stop = FALSE
  /\ start_outcome = "none"
  /\ timed_out = FALSE
  /\ exit_shutdowns = 0
  /\ wait_result = "none"
  /\ streak = [value |-> FALSE, len |-> 0, toggles |-> 0]
  /\ stop_seen = "none"
  /\ wait_log = [target_level |-> TRUE, timeout |-> 0, polls |-> 0, seen |-> FALSE]

RestartSpec == RestartInit /\ [][Next]_vars

\* ------------------------------------------- the sensor called on its own
\* A caller of the sensor alone (as a unit test of WaterLevelSensor): any
\* number of read_stable_level calls and wait_for_level calls with any
\* target and timeout, on the main water sensor, with any raw input.

SensorInit ==
  /\ gpio = [p \in OutputPins |-> LOW]
  /\ sensors = [p \in SensorPins |-> WaterLevelSensor]
  /\ operator_id = ""
  /\ scope_id = ""
  /\ phase_vars = [p \in PhaseSet |-> FALSE]
  /\ phase_times = [p \in PhaseSet |-> 1]
  /\ process_running = FALSE
  /\ stop_requested = FALSE
  /\ start_button = "normal"
  /\ stop_button = "disabled"
  /\ stop_dialog = FALSE
  /\ history_log = << >>
  /\ rpc = "harness"
  /\ idx = 1
  /\ stack = << >>
  /\ phase_result = TRUE
  /\ success = TRUE
  /\ log_entry = NewLogEntry
  /\ faulted = FALSE
  /\ stuck = 0
  /\ invoked = << >>
  /\ sounded = << >>
  /\ may_start = TRUE
  /\ restart = FALSE
  /\ finishing = FALSE
  /\ stop_in_run = FALSE
  /\ late_stop = FALSE
  /\ start_outcome = "none"
  /\ timed_out = FALSE
  /\ exit_shutdowns = 0
  /\ wait_result = "none"
  /\ streak = [value |-> FALSE, len |-> 0, toggles |-> 0]
  /\ stop_seen = "none"
  /\ wait_log = [target_level |-> TRUE, timeout |-> 0, polls |-> 0, seen |-> FALSE]

\* the run of identical raw values after one more raw value
\* (toggles: how many reads in a row each differed from the read before)
NextStreak(raw) ==
  IF streak.len > 0 /\ streak.value = raw
  THEN [streak EXCEPT !.len = IF @ < min_stable_reads THEN @ + 1 ELSE @,
                      !.toggles = 0]
  ELSE [value |-> raw, len |-> 1,
        toggles |-> IF streak.len = 0 THEN 0
                    ELSE IF streak.toggles < MaxToggles THEN streak.toggles + 1
                    ELSE MaxToggles]

harness_unchanged ==
  << gpio, config_vars, process_running, stop_requested, button_vars, stop_dialog,
     history_log, rpc, run_vars, faulted, stuck, invoked, sounded, start_vars,
     phase_obs, stop_seen >>

\* sensor.read_stable_level()
harness_read ==
  /\ rpc = "harness"
  /\ stack = << >>
  /\ \E current_state \in BOOLEAN :
       /\ sensors' = [sensors EXCEPT ![WATER_LEVEL_PIN] =
                        Capped(read_stable_level(@, current_state))]
       /\ streak' = NextStreak(current_state)
  /\ wait_result' = "none"
  /\ UNCHANGED << stack, wait_log, harness_unchanged >>

\* sensor.wait_for_level(target_level, timeout_seconds) is called
harness_wait ==
  /\ rpc = "harness"
  /\ stack = << >>
  /\ \E target_level \in BOOLEAN, timeout \in 0..MaxWaitPolls :
       /\ stack' = << Frame("wait_for_level",
                            WaitArgs(WATER_LEVEL_PIN, target_level, timeout)) >>
       /\ wait_log' = [target_level |-> target_level, timeout |-> timeout,
                       polls |-> 0, seen |-> FALSE]
  /\ wait_result' = "none"
  /\ UNCHANGED << sensors, streak, harness_unchanged >>

\* one poll of the direct wait_for_level call
harness_poll ==
  /\ rpc = "harness"
  /\ \E current_state \in BOOLEAN :
       /\ poll(current_state)
       /\ stop_seen' = stop_seen
       /\ streak' = NextStreak(current_state)
       /\ wait_log' =
            [wait_log EXCEPT
               !.polls = @ + 1,
               !.seen = @ \/ (sensors'[WATER_LEVEL_PIN].last_stable_state
                                = wait_log.target_level)]

SensorNext ==
  \/ harness_read
  \/ harness_wait
  \/ harness_poll
  \/ wait_timeout
  \/ return_value

SensorSpec == SensorInit /\ [][SensorNext]_vars

\* The thread that called wait_for_level keeps running: the loop takes its
\* next iteration, leaves at the deadline, and the function returns.
SensorLiveSpec ==
  /\ SensorInit
  /\ [][SensorNext]_vars
  /\ WF_vars(harness_poll)
  /\ WF_vars(wait_timeout)
  /\ WF_vars(return_value)

\* ------------------------------------------------------------------ claims

AllValvesOff == \A p \in ValvePins : gpio[p] = LOW

\* run_all_phases has returned
RunReturned == rpc = "idle" /\ ~finishing /\ history_log # << >>

\* run_all_phases has returned or has ended with an exception
RunExited == RunReturned \/ rpc = "dead"

LastRecord == history_log[Len(history_log)]

Names(phases) == [k \in 1..Len(phases) |-> phases[k].name]

\* C1: after run_all_phases has ended, on every exit path (all phases done,
\* stop before the first fill, stop during a countdown, a pin access raising
\* in a phase), the seven valve and pump pins are LOW.
C1_AllOffAfterRun == RunExited => AllValvesOff

\* a run that ended after a pin access raised inside a phase
C1_Witness == RunReturned /\ LastRecord.status = "SYSTEM_ERROR" /\ invoked # << >>

\* C2: whenever a phase function returns True, returns False or raises, the
\* seven valve and pump pins are LOW (a pin whose own write has raised is
\* left out: no write of the code could have turned it off).
C2_AllOffAtPhaseExit ==
  rpc \in {"phase_ret", "except"}
    => \A p \in ValvePins \ {stuck} : gpio[p] = LOW

\* C3: after min_stable_reads consecutive reads of one raw value v,
\* read_stable_level returns v.
C3_DebounceConverges ==
  streak.len >= min_stable_reads
    => sensors[WATER_LEVEL_PIN].last_stable_state = streak.value

\* C4: wait_for_level returns True exactly when one of its polls read the
\* target as the stable level, and it does return True for target True when
\* its last min_stable_reads polls all read the raw value True.
C4_WaitForLevel ==
  wait_result # "none"
    => /\ (wait_result = "T") <=> wait_log.seen
       /\ ( /\ wait_log.target_level = TRUE
            /\ wait_log.polls >= min_stable_reads
            /\ streak.value = TRUE
            /\ streak.len >= min_stable_reads )
          => wait_result = "T"

\* C5: with stop_requested set, the next step of the polling loop of
\* wait_for_level leaves the loop: the wait does not go on to another poll.
C5_WaitObservesStop ==
  [][ (stop_requested /\ At("poll") /\ stack' # stack)
        => ~(Len(stack') = Len(stack) /\ Instr(Head(stack')).op = "poll") ]_vars

\* C6: with stop_requested set, the next step of a countdown or of a
\* drain/return hold is the helper returning False, and the phase that
\* called the helper then returns False with no step in between.
C6_CancelAtEveryTick ==
  [][ /\ (stop_requested /\ (At("timer") \/ At("hold")) /\ stack' # stack)
        => (Len(stack') = Len(stack) - 1 /\ Head(stack').loc = "F")
      /\ (At("ifnot") /\ Top.loc = "F" /\ stack' # stack)
        => (Head(stack').sec = "fin" /\ Head(stack').pend = "F") ]_vars

\* C7: a run stopped during a treat countdown (no pin access raising) has
\* the record status STOPPED_BY_USER and no phase entry marked ERROR.
C7_StopDuringTreat ==
  (RunReturned /\ stop_seen = "timer" /\ ~faulted)
    => /\ LastRecord.status = "STOPPED_BY_USER"
       /\ \A k \in 1..Len(LastRecord.phases) : LastRecord.phases[k].status # "ERROR"

\* C8: once run_all_phases has read stop_requested as True at the top of a
\* loop iteration, it is in its finally block or has ended, no phase function
\* is on the stack, and the record's status is STOPPED_BY_USER.
C8_StopBetweenPhases ==
  stop_seen = "loop"
    => /\ rpc \in {"fin_shutdown", "fin_log", "fin_status_off", "fin_error",
                   "fin_report", "fin_reset", "idle", "dead"}
       /\ \A k \in 1..Len(stack) : stack[k].fn = "shutdown_all_valves"
       /\ log_entry.status = "STOPPED_BY_USER"
       /\ RunReturned => LastRecord.status = "STOPPED_BY_USER"

\* a run stopped between two phases: a phase has run, another selected one
\* has not
C8_Witness ==
  /\ RunReturned
  /\ stop_seen = "loop"
  /\ Len(LastRecord.phases) >= 1
  /\ \E p \in PhaseSet : phase_vars[p] /\ \A k \in 1..Len(invoked) : invoked[k] # PhaseFunction(p)

\* C9: during a run, no step taken while stop_requested is set turns the
\* error LED on or sounds a buzzer pattern.
C9_NoSignalOnCancel ==
  [][ (process_running /\ stop_requested)
        => (gpio'[LED_ERROR] = gpio[LED_ERROR] /\ sounded' = sounded) ]_vars

\* a run ended by a stop, without an exception: no LED, no buzzer
C9_Witness ==
  /\ RunReturned
  /\ stop_seen # "none"
  /\ ~faulted
  /\ LastRecord.status \in {"ERROR", "STOPPED_BY_USER"}
  /\ gpio[LED_ERROR] = LOW
  /\ sounded = << >>

CanonicalFunctions ==
  << "run_detergent_wash_phase", "run_rinsing_phase", "run_disinfecting_phase",
     "run_final_rinse_phase", "run_air_flush_phase" >>

CanonicalNames ==
  << "Detergent Wash", "Rinsing", "Disinfecting", "Final Rinse", "Air-flush" >>

Position(canon, x) == CHOOSE k \in 1..Len(canon) : canon[k] = x

Ascending(seq, canon) ==
  /\ \A k \in 1..Len(seq) : \E c \in 1..Len(canon) : canon[c] = seq[k]
  /\ \A i, j \in 1..Len(seq) : i < j => Position(canon, seq[i]) < Position(canon, seq[j])

IsSelected(c) == phase_vars[CanonicalNames[c]]

\* the selected phases among the first n of the canonical order
SelectedAmong(n) == SelectSeq([c \in 1..n |-> c], IsSelected)

\* C10: the phase functions called in a run, and the entries of its record,
\* are in canonical order without repetition and all selected; at the top
\* of each loop iteration they are exactly the selected phases before it.
C10_CanonicalOrder ==
  /\ Ascending(invoked, CanonicalFunctions)
  /\ \A k \in 1..Len(invoked) : IsSelected(Position(CanonicalFunctions, invoked[k]))
  /\ \A r \in 1..Len(history_log) :
       /\ Ascending(Names(history_log[r].phases), CanonicalNames)
       /\ \A k \in 1..Len(history_log[r].phases) :
            phase_vars[history_log[r].phases[k].name]
  /\ rpc \in {"loop", "in_phase", "phase_ret", "except"}
       => /\ Ascending(Names(log_entry.phases), CanonicalNames)
          /\ Len(log_entry.phases) <= Len(invoked)
          /\ \A k \in 1..Len(log_entry.phases) :
               log_entry.phases[k].name
                 = CanonicalNames[Position(CanonicalFunctions, invoked[k])]
  /\ rpc = "loop"
       => LET sel == SelectedAmong(IF idx > Len(PHASES) THEN Len(PHASES) ELSE idx - 1)
          IN /\ invoked = [k \in 1..Len(sel) |-> CanonicalFunctions[sel[k]]]
             /\ Names(log_entry.phases) = [k \in 1..Len(sel) |-> CanonicalNames[sel[k]]]

\* a completed run of three selected phases with unselected ones between
C10_Witness ==
  /\ RunReturned
  /\ invoked = << "run_detergent_wash_phase", "run_disinfecting_phase",
                  "run_air_flush_phase" >>
  /\ Names(LastRecord.phases) = << "Detergent Wash", "Disinfecting", "Air-flush" >>
  /\ LastRecord.status = "SUCCESS"

\* C11: a run in which a phase function returned False ends with the record
\* status ERROR, the failed phase the last one called and recorded, the error
\* LED HIGH and the error pattern sounded.
C11_PhaseFailureSignalled ==
  (RunReturned /\ ~phase_result)
    => /\ LastRecord.status = "ERROR"
       /\ Len(LastRecord.phases) = Len(invoked)
       /\ gpio[LED_ERROR] = HIGH
       /\ sounded = << "error" >>

AfterShutdown == {"fin_log", "fin_status_off", "fin_error", "fin_report", "fin_reset", "idle"}

AfterSave == AfterShutdown \ {"fin_log"}

\* C12: after a pin access has raised inside a phase, no further phase is
\* called, the except clause goes on to shutdown_all_valves, and once that
\* has run the valves and pumps are off and the record has status
\* SYSTEM_ERROR and an error description; the record is appended to the
\* history as it is.
C12_FaultInPhase ==
  /\ [][ /\ (faulted /\ process_running) => invoked' = invoked
         /\ (rpc = "except" /\ rpc' # rpc) => (rpc' = "fin_shutdown" /\ stack' = Finally)
       ]_vars
  /\ []( (faulted /\ rpc \in AfterShutdown)
           => /\ log_entry.status = "SYSTEM_ERROR"
              /\ log_entry.error
              /\ AllValvesOff
              /\ rpc \in AfterSave
                   => history_log # << >> /\ LastRecord = log_entry )

\* a run in which the write turning off an open valve or a running pump
\* raised: it has ended with the valves off and the SYSTEM_ERROR record saved
C12_Witness ==
  /\ RunReturned
  /\ faulted
  /\ stuck # 0
  /\ LastRecord.status = "SYSTEM_ERROR"
  /\ LastRecord.error
  /\ AllValvesOff

AllSelected == SelectedAmong(Len(PHASES))

\* C13: a run during which no stop was requested and no pin access raised
\* ends with the record status SUCCESS, one SUCCESS entry for each selected
\* phase in canonical order, and the completion pattern sounded.
C13_SuccessfulRun ==
  (rpc = "fin_reset" /\ ~stop_requested /\ ~faulted)
    => /\ LastRecord.status = "SUCCESS"
       /\ Names(LastRecord.phases)
            = [k \in 1..Len(AllSelected) |-> CanonicalNames[AllSelected[k]]]
       /\ \A k \in 1..Len(LastRecord.phases) : LastRecord.phases[k].status = "SUCCESS"
       /\ sounded = << "completion" >>

\* the run of the selection {Detergent Wash, Rinsing} without stop or fault
C13_Witness ==
  /\ rpc = "fin_reset"
  /\ ~stop_requested
  /\ ~faulted
  /\ Names(LastRecord.phases) = << "Detergent Wash", "Rinsing" >>
  /\ sounded = << "completion" >>

\* the phases that begin with a fill
FillPhases == {"Detergent Wash", "Rinsing", "Disinfecting", "Final Rinse"}

\* C14: a phase with a fill whose wait_for_level ended at its deadline, in
\* which the worker read no stop request, returns True.
C14_FillTimeoutNotFailure ==
  (rpc = "phase_ret" /\ PHASES[idx] \in FillPhases /\ timed_out /\ stop_seen = "none")
    => phase_result = TRUE

\* Rinsing has returned True after its fill timed out
C14_Witness ==
  /\ rpc = "phase_ret"
  /\ PHASES[idx] = "Rinsing"
  /\ timed_out
  /\ stop_seen = "none"
  /\ phase_result = TRUE
  /\ AllValvesOff

\* C15: when a phase function returns (True or False), the phase's
\* indicator pin is LOW and shutdown_all_valves has run exactly once in the
\* phase's finally block.
C15_PhaseExitCleanup ==
  rpc = "phase_ret"
    => /\ gpio[PHASE_PINS[PHASES[idx]]] = LOW
       /\ exit_shutdowns = 1

\* C16: once stop_requested is set, a phase issues no write that turns a
\* valve or a pump from LOW to HIGH.
C16_NoEnergizeAfterStop ==
  [][ (stop_requested /\ rpc = "in_phase")
        => \A p \in ValvePins : ~(gpio[p] = LOW /\ gpio'[p] = HIGH) ]_vars

\* the Air-flush phase has been left, by a return or by an exception
AirFlushExited == rpc \in {"phase_ret", "except"} /\ PHASES[idx] = "Air-flush"

C18_StatusLed ==
  /\ rpc = "in_phase" => gpio[LED_STATUS] = HIGH
  /\ RunExited => gpio[LED_STATUS] = LOW

\* the input start_process rejects
InvalidInput ==
  operator_id = "" \/ scope_id = "" \/ ~(\E p \in PhaseSet : phase_vars[p])

\* C19: start_process with an empty operator ID, an empty scope ID or no
\* phase selected is rejected: no worker is started, process_running stays
\* False, no pin is written, no sensor is read, nothing else changes, and
\* the Start button can be pressed again.
C19_InvalidStartRejected ==
  /\ InvalidInput => start_outcome \in {"none", "rejected"}
  /\ start_outcome = "rejected"
       => /\ rpc = "idle" /\ stack = << >>
          /\ ~process_running /\ ~stop_requested
          /\ \A p \in OutputPins : gpio[p] = LOW
          /\ sensors = [p \in SensorPins |-> WaterLevelSensor]
          /\ history_log = << >>
          /\ start_button = "normal" /\ stop_button = "disabled"
          /\ may_start

\* start_process was called with operator and scope given and no phase selected
C19_Witness ==
  /\ start_outcome = "rejected"
  /\ operator_id # "" /\ scope_id # ""
  /\ ~(\E p \in PhaseSet : phase_vars[p])

\* C20: the record of a finished run has exactly one entry for every phase
\* function that was called in it, in the order of the calls, and none for
\* any other phase.
C20_OneEntryPerInvokedPhase ==
  RunReturned
    => /\ Len(LastRecord.phases) = Len(invoked)
       /\ \A k \in 1..Len(invoked) :
            /\ PhaseFunction(LastRecord.phases[k].name) = invoked[k]
            /\ LastRecord.phases[k].duration = phase_times[LastRecord.phases[k].name]

\* the sensor the direct calls of read_stable_level and wait_for_level use
sensor == sensors[WATER_LEVEL_PIN]

\* C21: a call of read_stable_level gives last_stable_state a new value only
\* if that call and the min_stable_reads - 1 calls before it all read that
\* value raw; a shorter run of identical raw values never changes it.
C21_ChangeNeedsStableReads ==
  [][ sensors'[WATER_LEVEL_PIN].last_stable_state # sensor.last_stable_state
        => /\ streak'.len >= min_stable_reads
           /\ streak'.value = sensors'[WATER_LEVEL_PIN].last_stable_state ]_vars

\* min_stable_reads - 1 consecutive reads of True have left the sensor at False
C21_Witness ==
  /\ rpc = "harness"
  /\ streak.value = TRUE /\ streak.len = min_stable_reads - 1
  /\ sensor.last_stable_state = FALSE

\* C22: a read whose raw value differs from the raw value of the read before
\* it never changes last_stable_state, so for a raw input that toggles at
\* every poll the value read_stable_level returns never changes.
C22_TogglingInputIgnored ==
  [][ (streak' # streak /\ streak'.len = 1)
        => sensors'[WATER_LEVEL_PIN].last_stable_state = sensor.last_stable_state ]_vars

\* the raw input has toggled at MaxToggles reads in a row, the last one
\* inside a wait_for_level call for the level True
C22_Witness ==
  /\ streak.toggles = MaxToggles
  /\ wait_log.polls > 0 /\ wait_log.target_level = TRUE
  /\ stack # << >>
  /\ sensor.last_stable_state = FALSE

\* the reference step of the debouncer for raw reading r
ReferenceCount(s, r) == IF r = s.last_stable_state THEN s.stable_count + 1 ELSE 0

ReferenceState(s, r) ==
  IF ReferenceCount(s, r) >= min_stable_reads THEN r ELSE s.last_stable_state

\* a step in which the sensor made one read (its raw value is streak'.value)
SensorRead == rpc = "harness" /\ (sensors' # sensors \/ streak' # streak)

\* C23: one call of read_stable_level with raw reading r sets stable_count to
\* count + 1 if r = last_stable_state and to 0 otherwise, sets
\* last_stable_state to r if the new count is at least min_stable_reads and
\* keeps it otherwise, and returns the new last_stable_state (the value a
\* poll of wait_for_level compares with its target).
C23_ReferenceStep ==
  [][ SensorRead
        => LET r == streak'.value
               after == sensors'[WATER_LEVEL_PIN]
           IN /\ after.stable_count =
                   IF ReferenceCount(sensor, r) > MaxStableCount
                   THEN MaxStableCount ELSE ReferenceCount(sensor, r)
              /\ after.last_stable_state = ReferenceState(sensor, r)
              /\ stack # << >>
                   => (wait_result' = "T")
                        <=> (ReferenceState(sensor, r) = Head(stack).arg.target_level) ]_vars

\* the read that brought stable_count to min_stable_reads and took the commit
C23_Witness ==
  /\ rpc = "harness"
  /\ sensor.stable_count = min_stable_reads
  /\ streak.value = FALSE /\ streak.len = min_stable_reads

\* the treat countdown of phase function fn is running
Treating(fn) ==
  /\ rpc = "in_phase"
  /\ Len(stack) = 2
  /\ Top.fn = "run_timer_phase"
  /\ stack[2].fn = fn

\* C24: while the treat countdown of Detergent Wash, Rinsing or Disinfecting
\* is running, the inlet valves and the fill pumps are LOW; while the treat
\* countdown of Final Rinse is running, the water pump is HIGH and the inlet
\* and drain valves are LOW.
C24_ActuatorsWhileTreating ==
  /\ \A fn \in {"run_detergent_wash_phase", "run_rinsing_phase", "run_disinfecting_phase"} :
        Treating(fn)
          => /\ gpio[INLET_VALVE_PIN] = LOW /\ gpio[WATER_PUMP_PIN] = LOW
             /\ gpio[DISINFECT_INLET_PIN] = LOW /\ gpio[DISINFECT_PUMP_PIN] = LOW
  /\ Treating("run_final_rinse_phase")
       => /\ gpio[WATER_PUMP_PIN] = HIGH
          /\ gpio[INLET_VALVE_PIN] = LOW /\ gpio[DRAIN_VALVE_PIN] = LOW

\* the countdown of Final Rinse is running after a fill that timed out,
\* Disinfecting having run before it
C24_Witness ==
  /\ Treating("run_final_rinse_phase")
  /\ timed_out
  /\ \E k \in 1..Len(invoked) : invoked[k] = "run_disinfecting_phase"
  /\ gpio[WATER_PUMP_PIN] = HIGH

\* the hold loop of helper fn is running
Holding(fn) == rpc = "in_phase" /\ At("hold") /\ Top.fn = fn

\* helper fn is at its return True
ReturningTrue(fn) == rpc = "in_phase" /\ At("return") /\ Top.fn = fn

\* C25: during the drain hold only the main drain valve is HIGH among the
\* valve and pump pins; during the return hold of Disinfecting the
\* disinfectant drain and the disinfectant pump are HIGH and the main drain
\* valve is LOW; a helper that returns True has closed the drain valve it
\* opened.
C25_DrainRouting ==
  /\ Holding("run_drain_phase")
       => \A p \in ValvePins : gpio[p] = IF p = DRAIN_VALVE_PIN THEN HIGH ELSE LOW
  /\ Holding("return_disinfectant_phase")
       => /\ gpio[DISINFECT_DRAIN_PIN] = HIGH /\ gpio[DISINFECT_PUMP_PIN] = HIGH
          /\ gpio[DRAIN_VALVE_PIN] = LOW
  /\ ReturningTrue("run_drain_phase") => gpio[DRAIN_VALVE_PIN] = LOW
  /\ ReturningTrue("return_disinfectant_phase") => gpio[DISINFECT_DRAIN_PIN] = LOW

\* the drain of Final Rinse has held for its whole time and is about to
\* return True, the return hold of Disinfecting having run before it
C25_Witness ==
  /\ ReturningTrue("run_drain_phase")
  /\ stack[2].fn = "run_final_rinse_phase"
  /\ \E k \in 1..Len(invoked) : invoked[k] = "run_disinfecting_phase"
  /\ ~stop_requested
  /\ AllValvesOff

\* C26: a phase function during whose execution stop_requested was set does
\* not return True.
C26_TrueOnlyIfNotCancelled ==
  [][ (rpc = "in_phase" /\ rpc' = "phase_ret" /\ stop_requested)
        => phase_result' = FALSE ]_vars

\* C27: while process_running is True, stop_requested goes back to False
\* only in the last step of the run (lines 456-459), after the shutdown, the
\* saving of the record and the final signals; that step ends the run.
C27_StopFlagHeld ==
  [][ (process_running /\ stop_requested /\ ~stop_requested')
        => /\ rpc = "fin_reset" /\ rpc' = "idle"
           /\ ~process_running'
           /\ history_log # << >> /\ LastRecord = log_entry
           /\ gpio[LED_STATUS] = LOW
           /\ AllValvesOff ]_vars

\* a stop confirmed during a countdown is still set when the run reaches its
\* last step
C27_Witness ==
  /\ rpc = "fin_reset"
  /\ process_running /\ stop_requested
  /\ stop_seen = "timer"
  /\ LastRecord = log_entry

\* the workers that are inside run_all_phases: the one at position rpc and
\* the one that has only line 459 left
Workers ==
  (IF rpc \in {"idle", "dead", "harness"} THEN 0 ELSE 1) + (IF finishing THEN 1 ELSE 0)

\* C28: at most one run_all_phases worker is active at any time.
C28_SingleWorker == Workers <= 1

\* C29: wait_for_level always returns, after at most timeout + 1 polls (the
\* timeout counted in polls of check_interval each).
C29_WaitTerminates ==
  /\ [](wait_log.polls <= wait_log.timeout + 1)
  /\ (stack # << >>) ~> (stack = << >> /\ wait_result # "none")

\* a wait for the level True with the longest timeout has polled up to its
\* deadline and returned False
C29_Witness ==
  /\ wait_result = "F"
  /\ wait_log.target_level = TRUE
  /\ wait_log.timeout = MaxWaitPolls
  /\ wait_log.polls = MaxWaitPolls

StopReadInPhase == stop_seen \in {"step", "timer", "hold"}

\* the records of the run in progress or just ended
RunRecords ==
  {log_entry} \cup {history_log[r] : r \in 1..Len(history_log)}

\* C31: a phase function returns False only where stop_requested was read as
\* True, so the status ERROR, of a record or of a phase entry, occurs only in
\* a run with a stop read inside a phase, and the error LED and the error
\* pattern occur only in a run in which an exception was raised.
C31_FalseMeansStopped ==
  /\ (rpc = "phase_ret" /\ ~phase_result) => StopReadInPhase
  /\ \A rec \in RunRecords :
        ( rec.status = "ERROR"
          \/ \E k \in 1..Len(rec.phases) : rec.phases[k].status = "ERROR" )
          => StopReadInPhase
  /\ (gpio[LED_ERROR] = HIGH \/ \E k \in 1..Len(sounded) : sounded[k] = "error")
       => faulted

\* a run stopped during a drain hold has ended with status ERROR, its last
\* entry marked ERROR, without LED or buzzer
C31_Witness ==
  /\ RunReturned
  /\ stop_seen = "hold"
  /\ LastRecord.status = "ERROR"
  /\ LastRecord.phases[Len(LastRecord.phases)].status = "ERROR"
  /\ gpio[LED_ERROR] = LOW /\ sounded = << >>
  /\ Len(invoked) > 1

\* C32: after a run that ended with status SUCCESS the error LED is LOW,
\* also when an earlier run turned it on.
C32_ErrorLedFollowsLastRun ==
  (RunReturned /\ LastRecord.status = "SUCCESS") => gpio[LED_ERROR] = LOW

NeverBothHigh(a, b) == ~(gpio[a] = HIGH /\ gpio[b] = HIGH)

\* C33: the inlet valve and the main drain valve are never both HIGH, nor
\* the disinfectant inlet and the disinfectant drain, nor the main drain
\* valve and the disinfectant drain.
C33_NoConflictingValves ==
  /\ NeverBothHigh(INLET_VALVE_PIN, DRAIN_VALVE_PIN)
  /\ NeverBothHigh(DISINFECT_INLET_PIN, DISINFECT_DRAIN_PIN)
  /\ NeverBothHigh(DRAIN_VALVE_PIN, DISINFECT_DRAIN_PIN)

\* the disinfectant is being returned, after a Detergent Wash that filled
\* and drained: the disinfectant drain is open, its inlet and the main
\* drain are closed
C33_Witness ==
  /\ Holding("return_disinfectant_phase")
  /\ invoked[1] = "run_detergent_wash_phase"
  /\ gpio[DISINFECT_DRAIN_PIN] = HIGH
  /\ gpio[DISINFECT_INLET_PIN] = LOW /\ gpio[DRAIN_VALVE_PIN] = LOW
  /\ gpio[INLET_VALVE_PIN] = LOW

\* the phase whose function the worker is executing, if any
Executing(p) ==
  /\ rpc = "in_phase"
  /\ PHASES[idx] = p

\* C34: at most one phase indicator pin is HIGH at a time, the indicator pin
\* of a phase is HIGH only while the function of that phase is executing,
\* and all five are LOW once run_all_phases has ended.
C34_PhaseIndicators ==
  /\ \A p, q \in PhaseSet :
        (gpio[PHASE_PINS[p]] = HIGH /\ gpio[PHASE_PINS[q]] = HIGH) => p = q
  /\ \A p \in PhaseSet : gpio[PHASE_PINS[p]] = HIGH => Executing(p)
  /\ RunExited => \A p \in PhaseSet : gpio[PHASE_PINS[p]] = LOW

\* the operator's second run has returned
SecondRunReturned == RunReturned /\ Len(history_log) = 2

\* C35: a stop confirmed only after the worker has finished does not cancel
\* the next run: start_process clears stop_requested, and a next run in
\* which no stop is confirmed is recorded neither as STOPPED_BY_USER nor as
\* ERROR.
C35_LateStopDoesNotCancel ==
  /\ [][ (start_outcome' = "started" /\ process_running' /\ ~process_running)
           => ~stop_requested' ]_vars
  /\ []( (Len(history_log) = 2 /\ ~stop_in_run)
           => LastRecord.status \notin {"STOPPED_BY_USER", "ERROR"} )

\* the stop of the first run was confirmed after its end; the second run,
\* with no stop of its own, has completed
C35_Witness ==
  /\ SecondRunReturned
  /\ late_stop /\ ~stop_in_run
  /\ ~faulted
  /\ LastRecord.status = "SUCCESS"

\* C36: a run whose saved record has status SUCCESS has sounded the
\* completion pattern (and scheduled the report prompt with it, line 452).
C36_SuccessIsSignalled ==
  (RunReturned /\ LastRecord.status = "SUCCESS") => sounded = << "completion" >>

\* C37: a record has status STOPPED_BY_USER only if some selected phase has
\* no SUCCESS entry in it.
C37_StoppedMeansIncomplete ==
  \A rec \in RunRecords :
    rec.status = "STOPPED_BY_USER"
      => \E p \in PhaseSet :
           /\ phase_vars[p]
           /\ ~\E k \in 1..Len(rec.phases) :
                 rec.phases[k].name = p /\ rec.phases[k].status = "SUCCESS"

\* the steps of the worker thread
WorkerStep ==
  \/ GPIO_output \/ GPIO_output_raises \/ call_function \/ if_stop_requested
  \/ if_not_result \/ dialog_acknowledged \/ return_value \/ timer_tick
  \/ hold_tick \/ wait_poll \/ wait_poll_raises \/ wait_timeout
  \/ run_begin \/ run_begin_raises \/ run_loop \/ run_phase_returned
  \/ run_except \/ run_save_log \/ run_status_off \/ run_status_off_raises
  \/ run_error_signal \/ run_completion_signal \/ run_reset

\* C38: a started run never stops short of its end: as long as
\* process_running has not been reset the worker has a next step, so that
\* run_all_phases reaches lines 456-459 (process_running and stop_requested
\* False, Start enabled, Stop disabled).
C38_RunReachesItsEnd ==
  /\ process_running => ENABLED WorkerStep
  /\ (start_outcome = "started" /\ rpc = "idle" /\ ~finishing /\ ~late_stop)
       => /\ ~process_running /\ ~stop_requested
          /\ start_button = "normal" /\ stop_button = "disabled"


StatusValues == {"SUCCESS", "ERROR", "STOPPED_BY_USER", "SYSTEM_ERROR"}

\* C39: a run of run_all_phases that has ended, by whichever exit, has appended
\* exactly one record to the history, and every record of the history has
\* timestamp_end set and a status among SUCCESS, ERROR, STOPPED_BY_USER and
\* SYSTEM_ERROR.
C39_OneRecordPerRun ==
  /\ RunExited => Len(history_log) = 1
  /\ \A r \in 1..Len(history_log) :
       /\ history_log[r].timestamp_end
       /\ history_log[r].status \in StatusValues

====
